---------------------------- MODULE Spec2Model ----------------------------
(***************************************************************************)
(* Model of Mining Manager (miner_app): the Tk presentation layer's scan   *)
(* and monitor state machine (ui/app.py), the scan pipeline scan_network   *)
(* and the command dispatchers reboot_miners / send_pool_config            *)
(* (core/scanner.py).                                                      *)
(*                                                                         *)
(* Its specifications, one per part of the program:                        *)
(*   SpecUI        MiningManagerApp: Tk thread, manual-scan threads,       *)
(*                 monitor threads, the Tk event queue                     *)
(*   SpecUIHistory the same, recording the history of the monitor threads  *)
(*                 and the Tk objects a background thread touches          *)
(*   SpecUILive    SpecUI with fairness of the Tk main loop and of the     *)
(*                 manual-scan thread                                      *)
(*   SpecScan      one run of scan_network                                 *)
(*   SpecDispatch  one call of reboot_miners or send_pool_config           *)
(*   SpecFn        one call of a function that only computes: the row      *)
(*                 projection, the hashrate helpers, _get_subnet,          *)
(*                 load_config, configure_passwords_from_config            *)
(* Each leaves the variables of the other parts untouched.                 *)
(***************************************************************************)
EXTENDS Integers, Sequences, FiniteSets, Bags, TLC

VARIABLES
    \* ---- MiningManagerApp (ui/app.py) ----
    scan_running,      \* self._scan_running
    monitor_active,    \* self._monitor_active
    status_var,        \* self._status_var (last message shown)
    rows_var,          \* self._rows
    miner_map,         \* self._miner_map (set of addresses it maps)
    tk_queue,          \* callbacks posted with self.after(0, ...), FIFO
    scan_threads,      \* threads running _start_scan._run
    monitor_threads,   \* threads running _monitor_loop (a bag: the threads
                       \* are interchangeable)
    ui_history,        \* whether the history fields of the monitor threads
                       \* are recorded (fixed by the specification)
    tk_direct,         \* the Tk objects the last step touched from a
                       \* background thread without self.after (history)
    \* ---- one run of scan_network (core/scanner.py) ----
    sn_pc,             \* where the run is
    sn_sink,           \* whether the caller gave a progress_cb
    sn_miners,         \* miners: the handles discovery returned, in order
    sn_results,        \* results of asyncio.gather, one slot per handle
    sn_rows,           \* rows: the list the run returns
    sn_progress,       \* notifications sent to progress_cb, in order
    \* ---- one call of reboot_miners / send_pool_config (core/scanner.py) ----
    dp_pc,             \* where the call is
    dp_op,             \* "reboot" or "pools"
    dp_miners,         \* miners: the handles the caller passed
    dp_pools,          \* pools: the entries the caller passed
    dp_tasks,          \* the coroutines _reboot / _send, one per handle
    dp_results,        \* results: address -> outcome
    dp_devices,        \* per handle, the calls its device received and the
                       \* configuration last written to it
    \* ---- one call of a function that only computes ----
    fn_pc,             \* "off", "called" or "returned"
    fn_call,           \* the function called and its argument
    fn_out             \* what it returned

ui_vars == <<scan_running, monitor_active, status_var, rows_var, miner_map,
             tk_queue, scan_threads, monitor_threads, ui_history,
             tk_direct>>

sn_vars == <<sn_pc, sn_sink, sn_miners, sn_results, sn_rows, sn_progress>>

dp_vars == <<dp_pc, dp_op, dp_miners, dp_pools, dp_tasks, dp_results,
             dp_devices>>

fn_vars == <<fn_pc, fn_call, fn_out>>

vars == <<ui_vars, sn_vars, dp_vars, fn_vars>>

-----------------------------------------------------------------------------
(* Bounds of the model *)

\* slots for threads running _start_scan._run at the same time
MaxScanThreads == 2
\* slots for threads running _monitor_loop at the same time
MaxMonitorThreads == 2
\* callbacks the Tk queue can hold
MaxQueue == 2
\* one-second increments of the monitor's sleep (300 in the code)
SleepIncrements == 1
\* handles one discovery returns at most
MaxDevices == 3
\* handles one dispatch call targets at most
MaxTargets == 2
\* pool entries one send_pool_config call is given at most
MaxPools == 2
\* entries of the pool list a device reports at most
MaxReportedPools == 2
\* characters of the address typed in the IP Range field at most
MaxAddressLen == 7

ScanSlots == 1..MaxScanThreads

-----------------------------------------------------------------------------
(* Status messages, by the handler that writes them *)

MsgReady        == "Listo."
MsgAlready      == "Ya hay un escaneo en curso"
MsgScanning     == "Escaneando"
MsgMonStopped   == "Monitor detenido."
MsgMonActive    == "Monitor activo"
MsgMonScanning  == "Monitor: escaneando"
MsgFound        == "miners encontrados"
MsgError        == "Error"
MsgMonError     == "Monitor error"
MsgScanFailed   == "Error al escanear"
MsgNoMiners     == "No se encontraron miners."
MsgCompleted    == "Completado"

\* what one run of scan_network can do, seen from its caller: the rows it
\* returns and the last progress notification it sent, or an exception
ScanOutcomes ==
    { [raised |-> FALSE, rows |-> <<>>,            last |-> MsgScanFailed],
      [raised |-> FALSE, rows |-> <<>>,            last |-> MsgNoMiners],
      [raised |-> FALSE, rows |-> <<"10.0.0.1">>,  last |-> MsgCompleted],
      [raised |-> TRUE,  rows |-> <<>>,            last |-> MsgScanning] }

EvStatus(m) ==
    [kind |-> "set_status", msg |-> m, rows |-> <<>>, by |-> "_monitor_loop"]
EvTable(r) ==
    [kind |-> "update_table", msg |-> "", rows |-> r, by |-> "_monitor_loop"]
EvScanDone ==
    [kind |-> "scan_done", msg |-> "", rows |-> <<>>, by |-> "_run"]

\* the event e as posted by the thread of _start_scan._run (the field "by"
\* records which thread function called self.after)
ByRun(e) == [e EXCEPT !.by = "_run"]

\* self.after(0, ...): append callbacks to the Tk queue
CanPost(n) == Len(tk_queue) + n <= MaxQueue
Post(evs) == tk_queue \o evs

SeqRange(s) == {s[i] : i \in 1..Len(s)}

-----------------------------------------------------------------------------
(* Threads *)

ScanThreadIdle == [pc |-> "idle"]

FreeScanSlots == {t \in ScanSlots : scan_threads[t].pc = "idle"}
LowestOf(S) == CHOOSE t \in S : \A u \in S : t <= u

\* A thread of _monitor_loop: where it is (pc), the increments left of its
\* sleep, the cycles it has completed (0, or 1 for one or more), and a
\* history field: where it was when a stop command was issued
\* ("none": no stop since it started, "sleep", "scan": in a cycle that is
\* still running, "scan_done": in a cycle that has since returned).
\* cycles and mark are recorded under SpecUIHistory only; under SpecUI they
\* keep their initial values.
MonitorThreadNew == [pc |-> "while", sleep_left |-> 0, cycles |-> 0, mark |-> "none"]

MonitorThreads == BagToSet(monitor_threads)

RECURSIVE SumCopies(_, _)
SumCopies(S, b) ==
    IF S = {} THEN 0
    ELSE LET r == CHOOSE x \in S : TRUE
         IN  CopiesIn(r, b) + SumCopies(S \ {r}, b)

\* the bag with one thread r replaced by thread n
Replace(r, n) == (monitor_threads (-) SetToBag({r})) (+) SetToBag({n})

\* calls of scan_network in flight, by who started them
ManualScans == Cardinality({t \in ScanSlots : scan_threads[t].pc = "scanning"})
MonitorScans ==
    SumCopies({r \in MonitorThreads : r.pc = "scanning"}, monitor_threads)
ScansInFlight == ManualScans + MonitorScans

InitUI ==
    /\ scan_running = FALSE
    /\ monitor_active = FALSE
    /\ status_var = MsgReady
    /\ rows_var = <<>>
    /\ miner_map = {}
    /\ tk_queue = <<>>
    /\ scan_threads = [t \in ScanSlots |-> ScanThreadIdle]
    /\ monitor_threads = EmptyBag
    /\ ui_history = FALSE
    /\ tk_direct = {}

-----------------------------------------------------------------------------
(* Handlers run by the Tk thread *)

\* _start_scan: set the flag, start the thread
StartScan ==
    /\ FreeScanSlots # {}
    /\ scan_running' = TRUE
    /\ status_var' = MsgScanning
    /\ scan_threads' =
          [scan_threads EXCEPT ![LowestOf(FreeScanSlots)] = [pc |-> "scanning"]]
    /\ UNCHANGED <<monitor_active, rows_var, miner_map, tk_queue,
                   monitor_threads>>

\* _on_scan without its test of self._scan_running
OnScanUnguarded == StartScan

\* _on_scan
OnScan ==
    IF scan_running
    THEN /\ status_var' = MsgAlready
         /\ UNCHANGED <<scan_running, monitor_active, rows_var, miner_map,
                        tk_queue, scan_threads, monitor_threads>>
    ELSE StartScan

\* _scan_done, run from the queue
TkScanDone ==
    /\ tk_queue # <<>>
    /\ Head(tk_queue).kind = "scan_done"
    /\ tk_queue' = Tail(tk_queue)
    /\ scan_running' = FALSE
    /\ UNCHANGED <<monitor_active, status_var, rows_var, miner_map,
                   scan_threads, monitor_threads>>

\* _set_status, run from the queue
TkSetStatus ==
    /\ tk_queue # <<>>
    /\ Head(tk_queue).kind = "set_status"
    /\ tk_queue' = Tail(tk_queue)
    /\ status_var' = Head(tk_queue).msg
    /\ UNCHANGED <<scan_running, monitor_active, rows_var, miner_map,
                   scan_threads, monitor_threads>>

\* _update_table leaving self._miner_map as it was
TkUpdateTableRowsOnly ==
    /\ tk_queue # <<>>
    /\ Head(tk_queue).kind = "update_table"
    /\ tk_queue' = Tail(tk_queue)
    /\ rows_var' = Head(tk_queue).rows
    /\ status_var' = MsgFound
    /\ UNCHANGED <<scan_running, monitor_active, miner_map, scan_threads,
                   monitor_threads>>

\* _update_table, run from the queue
TkUpdateTable ==
    /\ tk_queue # <<>>
    /\ Head(tk_queue).kind = "update_table"
    /\ tk_queue' = Tail(tk_queue)
    /\ rows_var' = Head(tk_queue).rows
    /\ miner_map' = SeqRange(Head(tk_queue).rows)
    /\ status_var' = MsgFound
    /\ UNCHANGED <<scan_running, monitor_active, scan_threads,
                   monitor_threads>>

\* history: a running monitor thread as the stop command finds it
MarkAtStop(r) ==
    IF ~ui_history \/ r.mark # "none" THEN r
    ELSE IF r.pc = "sleep" THEN [r EXCEPT !.mark = "sleep"]
    ELSE IF r.pc = "scanning" THEN [r EXCEPT !.mark = "scan"]
    ELSE r

\* history: the running monitor threads as the stop command finds them
MarkedAtStop ==
    [x \in {MarkAtStop(r) : r \in MonitorThreads} |->
        SumCopies({r \in MonitorThreads : MarkAtStop(r) = x}, monitor_threads)]

\* _on_monitor_toggle
OnMonitorToggle ==
    IF monitor_active
    THEN /\ monitor_active' = FALSE
         /\ status_var' = MsgMonStopped
         /\ monitor_threads' = MarkedAtStop
         /\ UNCHANGED <<scan_running, rows_var, miner_map, tk_queue,
                        scan_threads>>
    ELSE /\ BagCardinality(monitor_threads) < MaxMonitorThreads
         /\ monitor_active' = TRUE
         /\ status_var' = MsgMonActive
         /\ monitor_threads' = monitor_threads (+) SetToBag({MonitorThreadNew})
         /\ UNCHANGED <<scan_running, rows_var, miner_map, tk_queue,
                        scan_threads>>

-----------------------------------------------------------------------------
(* The thread of _start_scan._run *)

\* scan_network returns or raises: post the result or the error
ScanReturn(t) ==
    /\ scan_threads[t].pc = "scanning"
    /\ \E o \in ScanOutcomes :
          IF o.raised
          THEN /\ CanPost(1)
               /\ tk_queue' = Post(<<ByRun(EvStatus(MsgError))>>)
          ELSE /\ CanPost(2)
               /\ tk_queue' = Post(<<ByRun(EvStatus(o.last)),
                                     ByRun(EvTable(o.rows))>>)
    /\ scan_threads' = [scan_threads EXCEPT ![t] = [pc |-> "finally"]]
    /\ UNCHANGED <<scan_running, monitor_active, status_var, rows_var,
                   miner_map, monitor_threads>>

\* the thread ends without the finally block posting _scan_done
ScanFinallyWithoutScanDone(t) ==
    /\ scan_threads[t].pc = "finally"
    /\ scan_threads' = [scan_threads EXCEPT ![t] = ScanThreadIdle]
    /\ UNCHANGED <<scan_running, monitor_active, status_var, rows_var,
                   miner_map, tk_queue, monitor_threads>>

\* finally: post _scan_done, the thread ends
ScanFinally(t) ==
    /\ scan_threads[t].pc = "finally"
    /\ CanPost(1)
    /\ tk_queue' = Post(<<EvScanDone>>)
    /\ scan_threads' = [scan_threads EXCEPT ![t] = ScanThreadIdle]
    /\ UNCHANGED <<scan_running, monitor_active, status_var, rows_var,
                   miner_map, monitor_threads>>

-----------------------------------------------------------------------------
(* The thread of _monitor_loop *)

\* while self._monitor_active
MonitorWhile(r) ==
    /\ r.pc = "while"
    /\ IF monitor_active
       THEN monitor_threads' = Replace(r, [r EXCEPT !.pc = "begin"])
       ELSE monitor_threads' = monitor_threads (-) SetToBag({r})
    /\ UNCHANGED <<scan_running, monitor_active, status_var, rows_var,
                   miner_map, tk_queue, scan_threads>>

\* _get_subnet, post the status, call scan_network
MonitorBegin(r) ==
    /\ r.pc = "begin"
    /\ CanPost(1)
    /\ tk_queue' = Post(<<EvStatus(MsgMonScanning)>>)
    /\ monitor_threads' = Replace(r, [r EXCEPT !.pc = "scanning"])
    /\ UNCHANGED <<scan_running, monitor_active, status_var, rows_var,
                   miner_map, scan_threads>>

\* scan_network returns or raises: post the result or the error, then sleep
MonitorScanReturn(r) ==
    /\ r.pc = "scanning"
    /\ \E o \in ScanOutcomes :
          IF o.raised
          THEN /\ CanPost(1)
               /\ tk_queue' = Post(<<EvStatus(MsgMonError)>>)
          ELSE /\ CanPost(2)
               /\ tk_queue' = Post(<<EvStatus(o.last), EvTable(o.rows)>>)
    /\ monitor_threads' =
          Replace(r, [pc |-> "sleep", sleep_left |-> SleepIncrements,
                      cycles |-> IF ui_history THEN 1 ELSE 0,
                      mark |-> IF r.mark = "scan" THEN "scan_done" ELSE r.mark])
    /\ UNCHANGED <<scan_running, monitor_active, status_var, rows_var,
                   miner_map, scan_threads>>

\* for _ in range(300): if not self._monitor_active: break; time.sleep(1)
MonitorSleep(r) ==
    /\ r.pc = "sleep"
    /\ IF r.sleep_left = 0 \/ ~monitor_active
       THEN monitor_threads' =
               Replace(r, [r EXCEPT !.pc = "while", !.sleep_left = 0])
       ELSE monitor_threads' =
               Replace(r, [r EXCEPT !.sleep_left = @ - 1])
    /\ UNCHANGED <<scan_running, monitor_active, status_var, rows_var,
                   miner_map, tk_queue, scan_threads>>

-----------------------------------------------------------------------------

\* the other parts of the program, at rest
ScanOff ==
    /\ sn_pc = "off"
    /\ sn_sink = FALSE
    /\ sn_miners = <<>>
    /\ sn_results = <<>>
    /\ sn_rows = <<>>
    /\ sn_progress = <<>>

DispatchOff ==
    /\ dp_pc = "off"
    /\ dp_op = "none"
    /\ dp_miners = <<>>
    /\ dp_pools = <<>>
    /\ dp_tasks = <<>>
    /\ dp_results = <<>>
    /\ dp_devices = <<>>

FnOff ==
    /\ fn_pc = "off"
    /\ fn_call = [name |-> "none", arg |-> <<>>]
    /\ fn_out = <<>>

\* what a step touches of Tk from outside the Tk thread: the handlers run on
\* the Tk thread, the scan thread only calls self.after, and _monitor_loop
\* calls self._get_subnet(), which reads the Tk variable self._ip_from_var
Direct(objects) == tk_direct' = IF ui_history THEN objects ELSE {}

NextUI ==
    \/ OnScan
          /\ Direct({}) /\ UNCHANGED <<sn_vars, dp_vars, fn_vars, ui_history>>
    \/ OnMonitorToggle
          /\ Direct({}) /\ UNCHANGED <<sn_vars, dp_vars, fn_vars, ui_history>>
    \/ TkScanDone
          /\ Direct({}) /\ UNCHANGED <<sn_vars, dp_vars, fn_vars, ui_history>>
    \/ TkSetStatus
          /\ Direct({}) /\ UNCHANGED <<sn_vars, dp_vars, fn_vars, ui_history>>
    \/ TkUpdateTable
          /\ Direct({}) /\ UNCHANGED <<sn_vars, dp_vars, fn_vars, ui_history>>
    \/ \E t \in ScanSlots : ScanReturn(t)
          /\ Direct({}) /\ UNCHANGED <<sn_vars, dp_vars, fn_vars, ui_history>>
    \/ \E t \in ScanSlots : ScanFinally(t)
          /\ Direct({}) /\ UNCHANGED <<sn_vars, dp_vars, fn_vars, ui_history>>
    \/ \E r \in MonitorThreads : MonitorWhile(r)
          /\ Direct({}) /\ UNCHANGED <<sn_vars, dp_vars, fn_vars, ui_history>>
    \/ \E r \in MonitorThreads : MonitorBegin(r)
          /\ Direct({"_ip_from_var"}) /\ UNCHANGED <<sn_vars, dp_vars, fn_vars, ui_history>>
    \/ \E r \in MonitorThreads : MonitorScanReturn(r)
          /\ Direct({}) /\ UNCHANGED <<sn_vars, dp_vars, fn_vars, ui_history>>
    \/ \E r \in MonitorThreads : MonitorSleep(r)
          /\ Direct({}) /\ UNCHANGED <<sn_vars, dp_vars, fn_vars, ui_history>>

InitSpecUI == InitUI /\ ScanOff /\ DispatchOff /\ FnOff

SpecUI == InitSpecUI /\ [][NextUI]_vars

\* the Tk main loop runs the callback at the head of its queue
TkStep ==
    (TkScanDone \/ TkSetStatus \/ TkUpdateTable)
    /\ Direct({}) /\ UNCHANGED <<sn_vars, dp_vars, fn_vars, ui_history>>

\* a thread of _start_scan._run takes its next step
ScanThreadStep ==
    \E t \in ScanSlots :
       (ScanReturn(t) \/ ScanFinally(t))
       /\ Direct({}) /\ UNCHANGED <<sn_vars, dp_vars, fn_vars, ui_history>>

\* the program when it keeps running: the Tk main loop serves every pending
\* callback, and a scan thread is scheduled, scan_network ends, and
\* self.after never blocks (strong fairness: the bound of the queue, which
\* the program does not have, disables a post only for a while)
SpecUILive ==
    InitSpecUI /\ [][NextUI]_vars /\ WF_vars(TkStep) /\ SF_vars(ScanThreadStep)

\* the same program with the history of the monitor threads recorded
InitSpecUIHistory ==
    /\ scan_running = FALSE
    /\ monitor_active = FALSE
    /\ status_var = MsgReady
    /\ rows_var = <<>>
    /\ miner_map = {}
    /\ tk_queue = <<>>
    /\ scan_threads = [t \in ScanSlots |-> ScanThreadIdle]
    /\ monitor_threads = EmptyBag
    /\ ui_history = TRUE
    /\ tk_direct = {}
    /\ ScanOff /\ DispatchOff /\ FnOff

SpecUIHistory == InitSpecUIHistory /\ [][NextUI]_vars

-----------------------------------------------------------------------------
(* Claims about the scan / monitor state machine, checked under SpecUI;    *)
(* C2, C6 and C7 read the history and are checked under SpecUIHistory      *)

\* a manual scan is in flight: from _start_scan until its _scan_done callback
\* has been processed
ManualInFlight ==
    \/ \E t \in ScanSlots : scan_threads[t].pc # "idle"
    \/ \E i \in 1..Len(tk_queue) : tk_queue[i].kind = "scan_done"

\* the monitor is running and a loop of it has not completed a cycle yet
MonitorInFirstCycle ==
    /\ monitor_active
    /\ \E r \in MonitorThreads : r.cycles = 0

\* C1: in every reachable state at most one call of scan_network, started
\* manually or by the monitor, is in flight.
C1_AtMostOneScanInFlight == ScansInFlight <= 1

\* C2: a manual scan requested while the monitor is running and before its
\* first cycle has completed is rejected with the "scan already in progress"
\* status and starts no thread; no manual scan overlaps that first cycle.
C2_ManualScanRejectedDuringFirstCycle ==
    [][ /\ (MonitorInFirstCycle /\ OnScan) =>
              (status_var' = MsgAlready /\ scan_threads' = scan_threads)
        /\ ~ ( /\ ManualScans' > 0
               /\ \E r \in BagToSet(monitor_threads') :
                     r.pc = "scanning" /\ r.cycles = 0 )
      ]_vars

\* C3: a monitor start requested while a manual scan is in flight
\* (_scan_running true) is rejected: the monitor stays idle and no monitor
\* thread is started.
C3_MonitorStartRejectedDuringManualScan ==
    [][ (scan_running /\ ~monitor_active /\ OnMonitorToggle) =>
           (~monitor_active' /\ monitor_threads' = monitor_threads) ]_vars

\* C4: a manual scan requested while a manual scan is in flight is rejected:
\* the "scan already in progress" status is set, no thread is started,
\* nothing is queued and _scan_running stays true.
C4_SecondManualScanRejected ==
    [][ (ManualInFlight /\ OnScan) =>
           /\ status_var' = MsgAlready
           /\ scan_threads' = scan_threads
           /\ tk_queue' = tk_queue
           /\ scan_running' = TRUE ]_vars

\* C4 witness: a request was rejected while a manual scan is in flight
C4_Witness == ManualInFlight /\ scan_running /\ status_var = MsgAlready

\* C6: a monitor loop that was in its sleep phase when the monitor was
\* stopped starts no further scan cycle, whatever toggles follow the stop.
C6_NoCycleAfterStopInSleep ==
    \A r \in MonitorThreads : r.mark = "sleep" => r.pc # "scanning"

\* C7: a cycle in flight when the monitor is stopped runs to completion and
\* its outcome is posted to the Tk queue (_update_table for a result), and the
\* loop starts no further cycle afterwards.
C7_StoppedCycleCompletesAndIsLast ==
    [][ /\ \A r \in MonitorThreads :
              (r.mark = "scan" /\ MonitorScanReturn(r)) =>
                 /\ Len(tk_queue') > Len(tk_queue)
                 /\ tk_queue'[Len(tk_queue')].kind = "update_table"
                    \/ tk_queue'[Len(tk_queue')] = EvStatus(MsgMonError)
        /\ \A r \in BagToSet(monitor_threads') :
              r.mark = "scan_done" => r.pc # "scanning"
      ]_vars

\* the rows lists a scan cycle can hand to _update_table
CycleResults == {o.rows : o \in {x \in ScanOutcomes : ~x.raised}}

\* C21: in every state a handler of the Tk thread can read, _rows is the
\* list one scan cycle returned (or the initial empty list) and _miner_map
\* maps exactly the addresses of those rows: a reader never sees the rows of
\* one cycle with the map of another.
C21_FleetViewIsOneCycle ==
    /\ rows_var \in CycleResults
    /\ miner_map = SeqRange(rows_var)

\* C21 witness: the table of a manual scan is published while the table of
\* a monitor cycle, with other rows, waits in the queue and a scan runs
C21_Witness ==
    /\ rows_var = <<"10.0.0.1">>
    /\ miner_map = {"10.0.0.1"}
    /\ \E i \in 1..Len(tk_queue) :
          /\ tk_queue[i].kind = "update_table"
          /\ tk_queue[i].by = "_monitor_loop"
          /\ tk_queue[i].rows = <<>>
    /\ ManualScans + MonitorScans >= 1

\* C22: no step of a background thread (scan thread, monitor loop) reads or
\* writes an object of the presentation layer directly; the configured IP
\* range too is read only by an event posted to the queue.
C22_BackgroundNeverTouchesTk == tk_direct = {}

\* C26: after any sequence of start and stop toggles at most one monitor loop
\* is executing scan cycles: no two threads of _monitor_loop are in a cycle
\* at the same time.
C26_AtMostOneMonitorLoopInACycle ==
    SumCopies({r \in MonitorThreads : r.pc \in {"begin", "scanning"}},
              monitor_threads) <= 1

\* events of the manual scan thread that carry its result, its error or its
\* progress and are still in the queue
PendingOfRun(queue) ==
    {i \in 1..Len(queue) :
        queue[i].by = "_run" /\ queue[i].kind \in {"update_table", "set_status"}}

\* C27: every manual scan eventually clears _scan_running, whether
\* scan_network returned rows, returned nothing or raised; and the flag is
\* cleared only after that scan's result or error was delivered: when
\* _scan_done runs, the scan thread has ended and none of its _update_table
\* or _set_status events is still waiting.
C27_ScanRunningIsCleared ==
    /\ scan_running ~> ~scan_running
    /\ [][(scan_running /\ ~scan_running') =>
             /\ PendingOfRun(tk_queue) = {}
             /\ \A t \in ScanSlots : scan_threads[t] = ScanThreadIdle]_vars

\* C27 witness: a manual scan raised, its error was shown and the flag is
\* cleared again
C27_Witness ==
    /\ ~scan_running
    /\ status_var = MsgError
    /\ \A t \in ScanSlots : scan_threads[t] = ScanThreadIdle
    /\ PendingOfRun(tk_queue) = {}

\* the Tk thread has shown the failure notification of a scan and the next
\* callback in the queue is the _update_table of that same scan
FailedScanTablePending ==
    /\ status_var = MsgScanFailed
    /\ tk_queue # <<>>
    /\ Head(tk_queue).kind = "update_table"

\* C20: the _update_table of a scan cycle that ended in a scan-level failure
\* leaves _rows and _miner_map as they were published.
C20_FailedCycleKeepsFleetView ==
    [][ (FailedScanTablePending /\ TkUpdateTable) =>
            (rows_var' = rows_var /\ miner_map' = miner_map) ]_vars

-----------------------------------------------------------------------------
(* Strings, as sequences of characters *)

\* a key the dict does not have, and the value None
NoKey == "<no key>"
None == "<None>"

LowerLetters == <<"h", "k", "m", "g", "t", "p", "s", "e", "o", "l">>
UpperLetters == <<"H", "K", "M", "G", "T", "P", "S", "E", "O", "L">>
Letters == 1..Len(LowerLetters)

\* str.upper() and str.lower(), one character
UpperChar(c) ==
    IF \E i \in Letters : LowerLetters[i] = c
    THEN UpperLetters[CHOOSE i \in Letters : LowerLetters[i] = c]
    ELSE c
LowerChar(c) ==
    IF \E i \in Letters : UpperLetters[i] = c
    THEN LowerLetters[CHOOSE i \in Letters : UpperLetters[i] = c]
    ELSE c

\* str.upper() and str.lower()
Upper(str) == [i \in 1..Len(str) |-> UpperChar(str[i])]
Lower(str) == [i \in 1..Len(str) |-> LowerChar(str[i])]

\* str.startswith(prefix)
StartsWith(str, prefix) ==
    Len(prefix) <= Len(str) /\ SubSeq(str, 1, Len(prefix)) = prefix

\* sub in str
Contains(str, sub) ==
    \E i \in 1..(Len(str) - Len(sub) + 1) : SubSeq(str, i, i + Len(sub) - 1) = sub

\* str.replace(old, new): every occurrence, left to right, not overlapping
RECURSIVE StrReplace(_, _, _)
StrReplace(str, old, new) ==
    IF str = <<>> THEN <<>>
    ELSE IF StartsWith(str, old)
         THEN new \o StrReplace(SubSeq(str, Len(old) + 1, Len(str)), old, new)
         ELSE <<Head(str)>> \o StrReplace(Tail(str), old, new)

\* every casing of a string
RECURSIVE Casings(_)
Casings(str) ==
    IF str = <<>> THEN {<<>>}
    ELSE {<<c>> \o rest : c \in {UpperChar(Head(str)), LowerChar(Head(str))},
                          rest \in Casings(Tail(str))}

\* str.split("."): the parts between the dots
RECURSIVE SplitDots(_)
SplitDots(str) ==
    IF \A i \in 1..Len(str) : str[i] # "."
    THEN <<str>>
    ELSE LET d == CHOOSE i \in 1..Len(str) :
                     str[i] = "." /\ \A j \in 1..(i - 1) : str[j] # "."
         IN  <<SubSeq(str, 1, d - 1)>> \o SplitDots(SubSeq(str, d + 1, Len(str)))

\* strings over a set of characters, of length at most n
RECURSIVE Strings(_, _)
Strings(chars, n) ==
    IF n = 0 THEN {<<>>}
    ELSE {<<>>} \cup {<<c>> \o rest : c \in chars, rest \in Strings(chars, n - 1)}

-----------------------------------------------------------------------------
(* Hashrate helpers *)

\* the float m * 1000^e, in one form per value
RECURSIVE Float(_, _)
Float(m, e) ==
    IF m = 0 THEN [m |-> 0, e |-> 0]
    ELSE IF m % 1000 = 0 THEN Float(m \div 1000, e + 1)
    ELSE [m |-> m, e |-> e]

\* the enumerated units, with the power of 1000 that takes each to TH/s
UnitLabels ==
    << <<"H", "/", "s">>,      <<"K", "H", "/", "s">>, <<"M", "H", "/", "s">>,
       <<"G", "H", "/", "s">>, <<"T", "H", "/", "s">>, <<"P", "H", "/", "s">> >>
UnitPowers == <<-4, -3, -2, -1, 0, 1>>
UnitIndex == 1..Len(UnitLabels)

\* unit strings outside the enumerated set
OtherUnits ==
    { <<"E", "H", "/", "s">>, <<"S", "o", "l", "/", "s">>, <<"T", "H">>,
      <<"G", "H">>, <<>> }

\* str(hr.unit) of the hashrates the model reads
Units == UNION {Casings(UnitLabels[k]) : k \in UnitIndex} \cup OtherUnits

\* hr.rate where float() takes it
Rates == {0, 95, 1000}

\* data.hashrate: None, a rate with its unit, or a rate float() rejects
HashrateNone == [kind |-> "None", rate |-> 0, unit |-> <<>>]
Hashrates ==
    {HashrateNone} \cup [kind : {"rate", "bad_rate"}, rate : Rates, unit : Units]

\* factors = {"H/S": 1e-12, ...}; factors.get(unit, 1.0) as a power of 1000
FactorPower(unit) ==
    IF \E k \in UnitIndex : Upper(UnitLabels[k]) = unit
    THEN UnitPowers[CHOOSE k \in UnitIndex : Upper(UnitLabels[k]) = unit]
    ELSE 0

\* hashrate_to_ths with the unit looked up as the device spells it
hashrate_to_ths_case_sensitive(data) ==
    LET hr == data.hashrate
    IN  IF hr.kind = "None" THEN Float(0, 0)
        ELSE IF hr.kind = "bad_rate" THEN Float(0, 0)
        ELSE Float(hr.rate, FactorPower(hr.unit))

\* hashrate_to_ths
hashrate_to_ths(data) ==
    LET hr == data.hashrate
    IN  IF hr.kind = "None" THEN Float(0, 0)
        ELSE IF hr.kind = "bad_rate" THEN Float(0, 0)
        ELSE Float(hr.rate, FactorPower(Upper(hr.unit)))

\* what hashrate_display returns: "N/A", f"{rate:.2f} {unit_clean}", or
\* str(hr)
DisplayNA == [kind |-> "N/A", rate |-> 0, unit |-> <<>>]
Formatted(rate, unit) == [kind |-> "formatted", rate |-> rate, unit |-> unit]
StrOf(hr) == [kind |-> "str", rate |-> hr.rate, unit |-> hr.unit]

\* unit_clean of hashrate_display
UnitClean(unit) ==
    LET replaced == StrReplace(StrReplace(unit, <<"/", "S">>, <<"H", "/", "s">>),
                               <<"/", "s">>, <<"H", "/", "s">>)
        lower == Lower(unit)
    IN  IF Contains(lower, <<"g", "h">>) THEN <<"G", "H", "/", "s">>
        ELSE IF Contains(lower, <<"t", "h">>) THEN <<"T", "H", "/", "s">>
        ELSE IF Contains(lower, <<"m", "h">>) THEN <<"M", "H", "/", "s">>
        ELSE IF Contains(lower, <<"p", "h">>) THEN <<"P", "H", "/", "s">>
        ELSE replaced

\* hashrate_display
hashrate_display(data) ==
    LET hr == data.hashrate
    IN  IF hr.kind = "None" THEN DisplayNA
        ELSE IF hr.kind = "bad_rate" THEN StrOf(hr)
        ELSE Formatted(hr.rate, UnitClean(hr.unit))

-----------------------------------------------------------------------------
(* scan_network *)

\* addresses a handle can have; discovery returns each address at most once
Addresses == 1..MaxDevices

\* MinerData.is_mining as the projection reads it: True, False, None, or a
\* read that raises
IsMiningValues == {"true", "false", "none", "raises"}

\* data.temperature_avg: None, a reading, or a read that raises
TempNone == [kind |-> "None", value |-> 0]
Temp(v) == [kind |-> "value", value |-> v]
Temperatures == {TempNone, [kind |-> "raises", value |-> 0], Temp(0), Temp(65)}

\* a PoolMetrics of data.pools: url and user can be None, active is True,
\* False or None
PoolMetrics ==
    [url : {None, "stratum://a", "stratum://b"}, user : {None, "w1"},
     active : {"true", "false", "none"}]

\* hr of a reading of 95 TH/s
Hashrate95 == [kind |-> "rate", rate |-> 95, unit |-> <<"T", "H", "/", "s">>]

\* the exception miner.get_data() raised, in the slot of gather
GetDataRaised ==
    [exc |-> TRUE, is_mining |-> "none", hashrate |-> HashrateNone,
     temperature_avg |-> TempNone, pools |-> <<>>]

\* a MinerData
MinerData(is_mining, hashrate, temperature_avg, pools) ==
    [exc |-> FALSE, is_mining |-> is_mining, hashrate |-> hashrate,
     temperature_avg |-> temperature_avg, pools |-> pools]

\* what miner.get_data() gives in a run of scan_network: an exception, or a
\* MinerData: a device that mines, one that is stopped, two that report
\* nothing
GetDataResults ==
    { GetDataRaised,
      MinerData("true", Hashrate95, Temp(65),
                <<[url |-> "stratum://a", user |-> "w1", active |-> "true"]>>),
      MinerData("false", [Hashrate95 EXCEPT !.rate = 0], Temp(0), <<>>),
      MinerData("none", HashrateNone, TempNone, <<>>),
      MinerData("raises", HashrateNone, TempNone, <<>>) }

Pending == [GetDataRaised EXCEPT !.exc = FALSE, !.is_mining = "pending"]

\* sequences over S without repetition, of length at most n
RECURSIVE InjectiveSeqs(_, _)
InjectiveSeqs(S, n) ==
    IF n = 0 THEN {<<>>}
    ELSE {<<>>} \cup
         UNION {{<<a>> \o q : q \in InjectiveSeqs(S \ {a}, n - 1)} : a \in S}

\* progress_cb(msg) when a sink was given
Notify(msg) ==
    sn_progress' = IF sn_sink THEN Append(sn_progress, msg) ELSE sn_progress

\* status of a row under a slip in the except branch of the status read
StatusOfErrorOnUnreadable(data) ==
    IF data.is_mining = "raises" THEN "Error"
    ELSE IF data.is_mining = "true" THEN "Minando"
    ELSE "Parado"

\* status of a row built from a MinerData: "Minando" if data.is_mining else
\* "Parado", "OK" when the read raises
StatusOf(data) ==
    IF data.is_mining = "raises" THEN "OK"
    ELSE IF data.is_mining = "true" THEN "Minando"
    ELSE "Parado"

\* temp of scan_network
TemperatureOf(data) ==
    IF data.temperature_avg.kind = "value"
    THEN [kind |-> "value", value |-> data.temperature_avg.value]
    ELSE [kind |-> "N/A", value |-> 0]

\* x or "": a None or empty field reads ""
OrEmpty(x) == IF x = None THEN "" ELSE x

\* x or "N/A"
OrNA(x) == IF x = "" THEN "N/A" ELSE x

\* all_pools of scan_network, one dict per entry of data.pools
AllPools(data) ==
    [i \in 1..Len(data.pools) |->
        [index |-> i - 1, url |-> OrEmpty(data.pools[i].url),
         user |-> OrEmpty(data.pools[i].user), active |-> data.pools[i].active]]

\* the active pool taken as the last dict with a true active
ActivePoolLast(all_pools) ==
    LET active == {i \in 1..Len(all_pools) : all_pools[i].active = "true"}
    IN  IF active # {}
        THEN all_pools[CHOOSE i \in active : \A j \in active : i >= j]
        ELSE all_pools[1]

\* active_pool of scan_network: the first dict with a true active, else the
\* first dict
ActivePool(all_pools) ==
    LET active == {i \in 1..Len(all_pools) : all_pools[i].active = "true"}
    IN  IF active # {}
        THEN all_pools[CHOOSE i \in active : \A j \in active : i <= j]
        ELSE all_pools[1]

\* pool1_url and worker of scan_network
PrimaryOf(data) ==
    IF data.pools = <<>>
    THEN [pool1_url |-> "N/A", worker |-> "N/A"]
    ELSE LET active_pool == ActivePool(AllPools(data))
         IN  [pool1_url |-> OrNA(active_pool.url),
              worker |-> OrNA(active_pool.user)]

\* the row of one (miner, result) pair of the zip
RowOf(miner, result) ==
    IF result.exc
    THEN [ip |-> miner.ip, status |-> "Error", miner_obj |-> miner,
          data_obj |-> "None", hashrate_str |-> DisplayNA,
          hashrate_ths |-> Float(0, 0),
          temperature |-> [kind |-> "N/A", value |-> 0],
          pool1_url |-> "N/A", worker |-> "N/A", all_pools |-> <<>>]
    ELSE [ip |-> miner.ip, status |-> StatusOf(result), miner_obj |-> miner,
          data_obj |-> result, hashrate_str |-> hashrate_display(result),
          hashrate_ths |-> hashrate_to_ths(result),
          temperature |-> TemperatureOf(result),
          pool1_url |-> PrimaryOf(result).pool1_url,
          worker |-> PrimaryOf(result).worker,
          all_pools |-> AllPools(result)]

InitScan ==
    /\ sn_pc = "start"
    /\ sn_sink \in BOOLEAN
    /\ sn_miners = <<>>
    /\ sn_results = <<>>
    /\ sn_rows = <<>>
    /\ sn_progress = <<>>

\* rows = []; progress_cb("Escaneando ...")
ScanStart ==
    /\ sn_pc = "start"
    /\ Notify(MsgScanning)
    /\ sn_pc' = "discover"
    /\ UNCHANGED <<sn_sink, sn_miners, sn_results, sn_rows>>

\* MinerNetwork.from_subnet(subnet) or network.scan() raises
DiscoverRaises ==
    /\ sn_pc = "discover"
    /\ Notify(MsgScanFailed)
    /\ sn_pc' = "returned"
    /\ UNCHANGED <<sn_sink, sn_miners, sn_results, sn_rows>>

\* network.scan() returns no miner
DiscoverNone ==
    /\ sn_pc = "discover"
    /\ Notify(MsgNoMiners)
    /\ sn_pc' = "returned"
    /\ UNCHANGED <<sn_sink, sn_miners, sn_results, sn_rows>>

\* the same step without the progress_cb call of the discovery count
DiscoverFoundSilent ==
    /\ sn_pc = "discover"
    /\ \E ips \in InjectiveSeqs(Addresses, MaxDevices) \ {<<>>} :
          /\ sn_miners' = [i \in 1..Len(ips) |-> [ip |-> ips[i]]]
          /\ sn_results' = [i \in 1..Len(ips) |-> Pending]
    /\ sn_pc' = "gather"
    /\ UNCHANGED <<sn_sink, sn_rows, sn_progress>>

\* network.scan() returns miners; asyncio.gather starts a get_data per miner
DiscoverFound ==
    /\ sn_pc = "discover"
    /\ \E ips \in InjectiveSeqs(Addresses, MaxDevices) \ {<<>>} :
          /\ sn_miners' = [i \in 1..Len(ips) |-> [ip |-> ips[i]]]
          /\ sn_results' = [i \in 1..Len(ips) |-> Pending]
    /\ Notify("Encontrados")
    /\ sn_pc' = "gather"
    /\ UNCHANGED <<sn_sink, sn_rows>>

\* one miner.get_data() completes, with a MinerData or an exception, which
\* gather(return_exceptions=True) stores in the miner's slot
GetData(i) ==
    /\ sn_pc = "gather"
    /\ sn_results[i] = Pending
    /\ \E r \in GetDataResults : sn_results' = [sn_results EXCEPT ![i] = r]
    /\ UNCHANGED <<sn_pc, sn_sink, sn_miners, sn_rows, sn_progress>>

\* gather returns; for miner, result in zip(miners, results): rows.append(...);
\* progress_cb("Completado ..."); return rows
BuildRows ==
    /\ sn_pc = "gather"
    /\ \A i \in 1..Len(sn_results) : sn_results[i] # Pending
    /\ sn_rows' = [i \in 1..Len(sn_miners) |-> RowOf(sn_miners[i], sn_results[i])]
    /\ Notify(MsgCompleted)
    /\ sn_pc' = "returned"
    /\ UNCHANGED <<sn_sink, sn_miners, sn_results>>

\* the presentation layer, at rest
UIOff == InitUI

NextScan ==
    \/ ScanStart /\ UNCHANGED <<ui_vars, dp_vars, fn_vars>>
    \/ DiscoverRaises /\ UNCHANGED <<ui_vars, dp_vars, fn_vars>>
    \/ DiscoverNone /\ UNCHANGED <<ui_vars, dp_vars, fn_vars>>
    \/ DiscoverFound /\ UNCHANGED <<ui_vars, dp_vars, fn_vars>>
    \/ \E i \in 1..Len(sn_results) : GetData(i) /\ UNCHANGED <<ui_vars, dp_vars, fn_vars>>
    \/ BuildRows /\ UNCHANGED <<ui_vars, dp_vars, fn_vars>>

InitSpecScan == InitScan /\ UIOff /\ DispatchOff /\ FnOff

SpecScan == InitSpecScan /\ [][NextScan]_vars

-----------------------------------------------------------------------------
(* Claims about scan_network, checked under SpecScan *)

\* C5: a run that discovered N >= 1 devices returns exactly N rows, row i
\* with the address and the handle of device i in discovery order, and row i
\* has status "Error" exactly when device i's get_data raised.
C5_OneRowPerDeviceInOrder ==
    (sn_pc = "returned" /\ Len(sn_miners) > 0) =>
        /\ Len(sn_rows) = Len(sn_miners)
        /\ \A i \in 1..Len(sn_miners) :
              /\ sn_rows[i].ip = sn_miners[i].ip
              /\ sn_rows[i].miner_obj = sn_miners[i]
              /\ (sn_rows[i].status = "Error") <=> sn_results[i].exc
              /\ ~sn_results[i].exc => sn_rows[i].data_obj = sn_results[i]

\* C5 witness: a returned run of three devices, not in address order, in
\* which one query raised and another did not
C5_Witness ==
    /\ sn_pc = "returned"
    /\ Len(sn_miners) = 3
    /\ sn_miners[1].ip > sn_miners[2].ip
    /\ sn_results[1].exc
    /\ ~sn_results[2].exc
    /\ sn_rows[1].status = "Error"
    /\ sn_rows[2].status # "Error"

\* C23: a run of scan_network that was given a progress sink notifies in a
\* fixed order: the start first; when devices were found, the discovery count
\* before any telemetry query is issued and the completion last, once every
\* row is built; a run whose discovery fails or finds nothing notifies the
\* start, then exactly one terminal message, and never the completion.
C23_NotificationOrder ==
    sn_sink =>
       /\ sn_pc = "start" => sn_progress = <<>>
       /\ sn_pc = "discover" => sn_progress = <<MsgScanning>>
       /\ sn_results # <<>> /\ sn_pc # "returned" =>
              /\ sn_progress = <<MsgScanning, "Encontrados">>
              /\ sn_rows = <<>>
       /\ sn_pc = "returned" /\ sn_miners # <<>> =>
              /\ sn_progress = <<MsgScanning, "Encontrados", MsgCompleted>>
              /\ Len(sn_rows) = Len(sn_miners)
              /\ \A i \in 1..Len(sn_results) : sn_results[i] # Pending
       /\ sn_pc = "returned" /\ sn_miners = <<>> =>
              /\ sn_progress \in {<<MsgScanning, MsgScanFailed>>,
                                  <<MsgScanning, MsgNoMiners>>}
              /\ sn_rows = <<>>
       /\ sn_pc \in {"start", "discover"} => sn_results = <<>>

\* C23 witness: a run with a sink found two devices, built their rows and
\* sent its three notifications
C23_Witness ==
    /\ sn_sink
    /\ sn_pc = "returned"
    /\ Len(sn_rows) = 2
    /\ sn_progress = <<MsgScanning, "Encontrados", MsgCompleted>>

\* C18: a run whose discovery raised returns to its caller something other
\* than the empty list that a run in which no device responded returns.
C18_FailureReturnDiffersFromEmpty ==
    [][DiscoverRaises => sn_rows' # <<>>]_vars

-----------------------------------------------------------------------------
(* reboot_miners and send_pool_config *)

AddressNames == <<"10.0.0.1", "10.0.0.2", "10.0.0.3", "10.0.0.4">>

\* addresses a targeted handle can have; two handles may share one
TargetAddresses == {AddressNames[i] : i \in 1..MaxTargets}

\* str(e) of the exception a device call raises
Reasons == {"timeout"}

\* a value of the results map
OK == [ok |-> TRUE, reason |-> ""]
Error(e) == [ok |-> FALSE, reason |-> e]

\* str.strip() on a url: "" for a url of blanks only
Strip(u) == IF u = " " THEN "" ELSE u

\* the entries a caller supplies: a row left empty, an entry without
\* password, an entry with one
PoolEntries ==
    { [url |-> "",            user |-> "",   password |-> ""],
      [url |-> "stratum://a", user |-> "w1", password |-> ""],
      [url |-> "stratum://b", user |-> "w2", password |-> "secret"] }

\* the pool list of a device before the call
OldPools == <<[url |-> "stratum://old", user |-> "old", password |-> "old"]>>

\* what miner.get_config() can return: a config without mining_mode (or with
\* mining_mode None), one whose mining_mode has no pools attribute, one whose
\* mining_mode has pools
GetConfigResults ==
    { [kind |-> "no_mining_mode",     pools |-> <<>>],
      [kind |-> "mode_without_pools", pools |-> <<>>],
      [kind |-> "mode_with_pools",    pools |-> OldPools] }

NoConfig == [kind |-> "none", pools |-> <<>>]

RECURSIVE SeqsUpTo(_, _)
SeqsUpTo(S, n) ==
    IF n = 0 THEN {<<>>}
    ELSE {<<>>} \cup {<<a>> \o q : a \in S, q \in SeqsUpTo(S, n - 1)}

\* pool_list = [p for p in pools if p.get("url", "").strip()]
RECURSIVE PoolList(_)
PoolList(pools) ==
    IF pools = <<>> THEN <<>>
    ELSE IF Strip(Head(pools).url) # ""
         THEN <<Head(pools)>> \o PoolList(Tail(pools))
         ELSE PoolList(Tail(pools))

\* the entry constructor with the password taken as supplied
MiningPoolConfigPasswordAsSupplied(p) ==
    [url |-> p.url,
     user |-> IF p.user = NoKey THEN "" ELSE p.user,
     password |-> IF p.password = NoKey THEN "x" ELSE p.password]

\* MiningPoolConfig(url=p["url"], user=p.get("user", ""),
\*                  password=p.get("password", "x") or "x")
MiningPoolConfig(p) ==
    [url |-> p.url,
     user |-> IF p.user = NoKey THEN "" ELSE p.user,
     password |-> IF p.password \in {NoKey, None, ""} THEN "x" ELSE p.password]

\* new_pools, one MiningPoolConfig per entry of pool_list
NewPools(pools) ==
    LET pl == PoolList(pools)
    IN  [i \in 1..Len(pl) |-> MiningPoolConfig(pl[i])]

\* the configuration written back with the pool list taken unfiltered
UpdatedConfigUnfiltered(cfg, pools) ==
    IF cfg.kind = "mode_with_pools" /\ pools # <<>>
    THEN [cfg EXCEPT !.pools = [i \in 1..Len(pools) |-> MiningPoolConfig(pools[i])]]
    ELSE cfg

\* cfg after lines 345-362: mm.pools = new_pools when the config has a
\* mining_mode with pools and new_pools is not empty
UpdatedConfig(cfg, pools) ==
    IF cfg.kind = "mode_with_pools" /\ NewPools(pools) # <<>>
    THEN [cfg EXCEPT !.pools = NewPools(pools)]
    ELSE cfg

DeviceNew == [reboot_calls |-> 0, get_config_calls |-> 0,
              send_config_calls |-> 0, written |-> NoConfig]

Targets == 1..Len(dp_miners)

\* results[ip] = value
SetResult(ip, value) ==
    dp_results' = [a \in DOMAIN dp_results \cup {ip} |->
                      IF a = ip THEN value ELSE dp_results[a]]

InitDispatch ==
    /\ dp_pc = "called"
    /\ dp_op \in {"reboot", "pools"}
    /\ \E ips \in SeqsUpTo(TargetAddresses, MaxTargets) :
          dp_miners = [i \in 1..Len(ips) |-> [ip |-> ips[i]]]
    /\ IF dp_op = "pools"
       THEN dp_pools \in SeqsUpTo(PoolEntries, MaxPools) \ {<<>>}
       ELSE dp_pools = <<>>
    /\ dp_tasks = [i \in 1..Len(dp_miners) |-> [pc |-> "new", cfg |-> NoConfig, exc |-> ""]]
    /\ dp_results = <<>>
    /\ dp_devices = [i \in 1..Len(dp_miners) |-> DeviceNew]

\* asyncio.gather(*[_reboot(m) for m in miners]): every coroutine runs to its
\* first await, the call of miner.reboot()
GatherReboot ==
    /\ dp_pc = "called"
    /\ dp_op = "reboot"
    /\ dp_tasks' = [i \in Targets |-> [dp_tasks[i] EXCEPT !.pc = "await_reboot"]]
    /\ dp_devices' = [i \in Targets |->
                         [dp_devices[i] EXCEPT !.reboot_calls = @ + 1]]
    /\ dp_pc' = "gather"
    /\ UNCHANGED <<dp_op, dp_miners, dp_pools, dp_results>>

\* await miner.reboot() returns: results[ip] = "OK"
RebootReturns(i) ==
    /\ dp_tasks[i].pc = "await_reboot"
    /\ SetResult(dp_miners[i].ip, OK)
    /\ dp_tasks' = [dp_tasks EXCEPT ![i].pc = "done"]
    /\ UNCHANGED <<dp_pc, dp_op, dp_miners, dp_pools, dp_devices>>

\* await miner.reboot() raises e and the handler stores nothing
RebootRaisesNoEntry(i) ==
    /\ dp_tasks[i].pc = "await_reboot"
    /\ \E e \in Reasons :
          dp_tasks' = [dp_tasks EXCEPT ![i].pc = "done", ![i].exc = e]
    /\ UNCHANGED <<dp_pc, dp_op, dp_miners, dp_pools, dp_devices, dp_results>>

\* await miner.reboot() raises e: results[ip] = f"Error: {e}"
RebootRaises(i) ==
    /\ dp_tasks[i].pc = "await_reboot"
    /\ \E e \in Reasons :
          /\ SetResult(dp_miners[i].ip, Error(e))
          /\ dp_tasks' = [dp_tasks EXCEPT ![i].pc = "done", ![i].exc = e]
    /\ UNCHANGED <<dp_pc, dp_op, dp_miners, dp_pools, dp_devices>>

\* asyncio.gather(*[_send(m) for m in miners]): every coroutine runs to its
\* first await, the call of miner.get_config()
GatherSend ==
    /\ dp_pc = "called"
    /\ dp_op = "pools"
    /\ dp_tasks' = [i \in Targets |-> [dp_tasks[i] EXCEPT !.pc = "await_get_config"]]
    /\ dp_devices' = [i \in Targets |->
                         [dp_devices[i] EXCEPT !.get_config_calls = @ + 1]]
    /\ dp_pc' = "gather"
    /\ UNCHANGED <<dp_op, dp_miners, dp_pools, dp_results>>

\* await miner.get_config() returns cfg: update its pools, call
\* miner.send_config(cfg)
GetConfigReturns(i) ==
    /\ dp_tasks[i].pc = "await_get_config"
    /\ \E cfg \in GetConfigResults :
          LET sent == UpdatedConfig(cfg, dp_pools)
          IN  /\ dp_tasks' = [dp_tasks EXCEPT
                                 ![i] = [pc |-> "await_send_config", cfg |-> cfg,
                                        exc |-> ""]]
              /\ dp_devices' = [dp_devices EXCEPT
                                   ![i].send_config_calls = @ + 1,
                                   ![i].written = sent]
    /\ UNCHANGED <<dp_pc, dp_op, dp_miners, dp_pools, dp_results>>

\* await miner.get_config() raises e and the coroutine goes on to send_config
GetConfigRaisesThenSends(i) ==
    /\ dp_tasks[i].pc = "await_get_config"
    /\ \E e \in Reasons :
          dp_tasks' = [dp_tasks EXCEPT ![i].pc = "await_send_config", ![i].exc = e]
    /\ dp_devices' = [dp_devices EXCEPT ![i].send_config_calls = @ + 1]
    /\ UNCHANGED <<dp_pc, dp_op, dp_miners, dp_pools, dp_results>>

\* await miner.get_config() raises e: results[ip] = f"Error: {e}"
GetConfigRaises(i) ==
    /\ dp_tasks[i].pc = "await_get_config"
    /\ \E e \in Reasons :
          /\ SetResult(dp_miners[i].ip, Error(e))
          /\ dp_tasks' = [dp_tasks EXCEPT ![i].pc = "done", ![i].exc = e]
    /\ UNCHANGED <<dp_pc, dp_op, dp_miners, dp_pools, dp_devices>>

\* await miner.send_config(cfg) returns: results[ip] = "OK"
SendConfigReturns(i) ==
    /\ dp_tasks[i].pc = "await_send_config"
    /\ SetResult(dp_miners[i].ip, OK)
    /\ dp_tasks' = [dp_tasks EXCEPT ![i].pc = "done"]
    /\ UNCHANGED <<dp_pc, dp_op, dp_miners, dp_pools, dp_devices>>

\* await miner.send_config(cfg) raises e: results[ip] = f"Error: {e}"
SendConfigRaises(i) ==
    /\ dp_tasks[i].pc = "await_send_config"
    /\ \E e \in Reasons :
          /\ SetResult(dp_miners[i].ip, Error(e))
          /\ dp_tasks' = [dp_tasks EXCEPT ![i].pc = "done", ![i].exc = e]
    /\ UNCHANGED <<dp_pc, dp_op, dp_miners, dp_pools, dp_devices>>

\* gather returns once every coroutine has ended: return results
DispatchReturn ==
    /\ dp_pc = "gather"
    /\ \A i \in Targets : dp_tasks[i].pc = "done"
    /\ dp_pc' = "returned"
    /\ UNCHANGED <<dp_op, dp_miners, dp_pools, dp_tasks, dp_results, dp_devices>>

NextDispatch ==
    \/ GatherReboot /\ UNCHANGED <<ui_vars, sn_vars, fn_vars>>
    \/ \E i \in Targets : RebootReturns(i) /\ UNCHANGED <<ui_vars, sn_vars, fn_vars>>
    \/ \E i \in Targets : RebootRaises(i) /\ UNCHANGED <<ui_vars, sn_vars, fn_vars>>
    \/ GatherSend /\ UNCHANGED <<ui_vars, sn_vars, fn_vars>>
    \/ \E i \in Targets : GetConfigReturns(i) /\ UNCHANGED <<ui_vars, sn_vars, fn_vars>>
    \/ \E i \in Targets : GetConfigRaises(i) /\ UNCHANGED <<ui_vars, sn_vars, fn_vars>>
    \/ \E i \in Targets : SendConfigReturns(i) /\ UNCHANGED <<ui_vars, sn_vars, fn_vars>>
    \/ \E i \in Targets : SendConfigRaises(i) /\ UNCHANGED <<ui_vars, sn_vars, fn_vars>>
    \/ DispatchReturn /\ UNCHANGED <<ui_vars, sn_vars, fn_vars>>

InitSpecDispatch == InitDispatch /\ UIOff /\ ScanOff /\ FnOff

SpecDispatch == InitSpecDispatch /\ [][NextDispatch]_vars

-----------------------------------------------------------------------------
(* Claims about the dispatchers, checked under SpecDispatch *)

\* the handles have pairwise distinct addresses
DistinctAddresses ==
    \A i, j \in Targets : dp_miners[i].ip = dp_miners[j].ip => i = j

\* the handles whose device call raised
RaisedTargets == {i \in Targets : dp_tasks[i].exc # ""}

\* the coroutine of handle i ended without an exception
Succeeded(i) == dp_tasks[i].pc = "done" /\ dp_tasks[i].exc = ""

\* the supplied entries with a non-empty url, in the supplied order
RECURSIVE WithUrl(_)
WithUrl(pools) ==
    IF pools = <<>> THEN <<>>
    ELSE IF Head(pools).url = "" THEN WithUrl(Tail(pools))
    ELSE <<Head(pools)>> \o WithUrl(Tail(pools))

\* url and user of each entry of a pool list
UrlsAndUsers(pools) == [i \in 1..Len(pools) |-> <<pools[i].url, pools[i].user>>]

\* C8: reboot_miners on N handles with pairwise distinct addresses, k of
\* which raise, returns a map with exactly N entries keyed by address: "OK"
\* for the N-k that did not raise, and for each of the k a failure value with
\* the reason of its own exception.
C8_RebootOneEntryPerHandle ==
    (dp_pc = "returned" /\ dp_op = "reboot" /\ DistinctAddresses) =>
        /\ DOMAIN dp_results = {dp_miners[i].ip : i \in Targets}
        /\ Cardinality(DOMAIN dp_results) = Len(dp_miners)
        /\ Cardinality({a \in DOMAIN dp_results : dp_results[a] = OK})
              = Len(dp_miners) - Cardinality(RaisedTargets)
        /\ \A i \in Targets :
              dp_results[dp_miners[i].ip] =
                 IF i \in RaisedTargets THEN Error(dp_tasks[i].exc) ELSE OK

\* C8 witness: a returned reboot of two distinct devices, one of which raised
C8_Witness ==
    /\ dp_pc = "returned" /\ dp_op = "reboot" /\ DistinctAddresses
    /\ Len(dp_miners) = 2
    /\ dp_tasks[1].exc # "" /\ dp_tasks[2].exc = ""
    /\ ~dp_results[dp_miners[1].ip].ok /\ dp_results[dp_miners[2].ip].ok

\* C9: no device call is made more than once; when the call has returned,
\* every targeted device got its reboot (reboot_miners) or its get_config
\* (send_pool_config) exactly once, whatever the other devices did;
\* send_config is called for a device exactly when its own get_config
\* returned, and a device whose get_config raised has a failure outcome.
C9_EachActionAttemptedOnce ==
    /\ \A i \in Targets :
          /\ dp_devices[i].reboot_calls <= 1
          /\ dp_devices[i].get_config_calls <= 1
          /\ dp_devices[i].send_config_calls <= 1
          /\ dp_devices[i].send_config_calls = 1 =>
                (dp_tasks[i].cfg # NoConfig /\ dp_devices[i].get_config_calls = 1)
    /\ dp_pc = "returned" =>
          \A i \in Targets :
             /\ dp_devices[i].reboot_calls = IF dp_op = "reboot" THEN 1 ELSE 0
             /\ dp_devices[i].get_config_calls = IF dp_op = "pools" THEN 1 ELSE 0
             /\ dp_devices[i].send_config_calls =
                   IF dp_op = "pools" /\ dp_tasks[i].cfg # NoConfig THEN 1 ELSE 0
             /\ (dp_op = "pools" /\ dp_tasks[i].cfg = NoConfig) =>
                   /\ dp_tasks[i].exc # ""
                   /\ DistinctAddresses => ~dp_results[dp_miners[i].ip].ok

\* C9 witness: a returned send_pool_config on two devices; the get_config of
\* the first raised, the configuration of the second was written
C9_Witness ==
    /\ dp_pc = "returned" /\ dp_op = "pools" /\ Len(dp_miners) = 2
    /\ dp_tasks[1].cfg = NoConfig /\ dp_devices[1].send_config_calls = 0
    /\ dp_tasks[2].cfg # NoConfig /\ dp_devices[2].send_config_calls = 1

NoPoolList(i) ==
    dp_tasks[i].cfg.kind \in {"no_mining_mode", "mode_without_pools"}

\* C11: when send_pool_config targets a device whose configuration exposes
\* no pool list (no mining_mode, or a mining_mode without pools), the outcome
\* stored for that device is not success, and every other targeted device
\* whose own calls did not raise still has the outcome "OK".
C11_IncompatibleConfigIsNotSuccess ==
    (dp_pc = "returned" /\ dp_op = "pools" /\ DistinctAddresses) =>
        \A i \in Targets :
           /\ NoPoolList(i) => ~dp_results[dp_miners[i].ip].ok
           /\ (~NoPoolList(i) /\ Succeeded(i)) => dp_results[dp_miners[i].ip] = OK

-----------------------------------------------------------------------------
(* Functions that only compute, called once on an argument *)

\* what the operator can type in the IP Range field, stripped
AddressChars == {"1", "a", "."}
TypedAddresses == Strings(AddressChars, MaxAddressLen)

\* str.join(".") of parts
RECURSIVE JoinDots(_)
JoinDots(parts) ==
    IF Len(parts) = 1 THEN parts[1]
    ELSE parts[1] \o <<".">> \o JoinDots(Tail(parts))

\* "192.168.1.0/24"
DefaultSubnet ==
    <<"1", "9", "2", ".", "1", "6", "8", ".", "1", ".", "0", "/", "2", "4">>

\* _get_subnet: f"{parts[0]}.{parts[1]}.{parts[2]}.0/24" for an address of
\* four parts, else "192.168.1.0/24"
get_subnet(ip_from) ==
    LET parts == SplitDots(ip_from)
    IN  IF Len(parts) = 4
        THEN JoinDots(SubSeq(parts, 1, 3)) \o <<".", "0", "/", "2", "4">>
        ELSE DefaultSubnet

\* the forms the password of a supplied entry can take
PasswordForms == {NoKey, None, "", "x", "secret"}

\* pool entries that pass the url filter of send_pool_config
EntriesWithUrl ==
    [url : {"stratum://a", "stratum://b"}, user : {NoKey, "", "w1"},
     password : PasswordForms]

\* hashrates of the snapshots projected to rows
RowHashrates ==
    {HashrateNone, Hashrate95, [Hashrate95 EXCEPT !.rate = 0],
     [Hashrate95 EXCEPT !.kind = "bad_rate"],
     [Hashrate95 EXCEPT !.unit = <<"G", "H">>]}

\* the (miner, result) pairs projected to rows: an exception, every reading
\* of the flag, the hashrate and the temperature, and every pool list
ZipPairs ==
    [miner : {[ip |-> 1]},
     result : {GetDataRaised} \cup
              {MinerData(m, h, t, <<>>) :
                  m \in IsMiningValues, h \in RowHashrates, t \in Temperatures}
              \cup
              {MinerData("true", Hashrate95, Temp(65), p) :
                  p \in SeqsUpTo(PoolMetrics, MaxReportedPools)}]

Call(name, args) == {[name |-> name, arg |-> a] : a \in args}

\* ---- config.json: load_config and configure_passwords_from_config ----

\* a persisted section holds at most this many keys
MaxPersistedKeys == 2

\* defaults = {...} in load_config
defaults ==
    [passwords |->
        ("antminer_web" :> "root") @@ ("antminer_ssh" :> "root")
        @@ ("whatsminer_rpc" :> "admin") @@ ("bosminer_web" :> "root")
        @@ ("bosminer_ssh" :> "root") @@ ("vnish_web" :> "admin")
        @@ ("goldshell_web" :> "123456789") @@ ("auradine_web" :> "admin")
        @@ ("epic_web" :> "letmein") @@ ("hive_web" :> "admin")
        @@ ("innosilicon_web" :> "admin"),
     network |->
        ("ip_from" :> "192.168.1.1") @@ ("ip_to" :> "192.168.1.254")
        @@ ("scan_timeout" :> "3") @@ ("monitor_interval_minutes" :> "5"),
     extra |-> FALSE,
     raised |-> FALSE]

\* mapping = {...} in configure_passwords_from_config
mapping ==
    ("antminer_web" :> "default_antminer_web_password")
    @@ ("antminer_ssh" :> "default_antminer_ssh_password")
    @@ ("whatsminer_rpc" :> "default_whatsminer_rpc_password")
    @@ ("bosminer" :> "default_bosminer_password")
    @@ ("vnish_web" :> "default_vnish_web_password")
    @@ ("luxos_web" :> "default_luxos_web_password")
    @@ ("luxos_ssh" :> "default_luxos_ssh_password")
    @@ ("goldshell_web" :> "default_goldshell_web_password")
    @@ ("iceriver_web" :> "default_iceriver_web_password")
    @@ ("epic_web" :> "default_epic_web_password")
    @@ ("elphapex_web" :> "default_elphapex_web_password")
    @@ ("innosilicon_web" :> "default_innosilicon_web_password")
    @@ ("hive_web" :> "default_hive_web_password")
    @@ ("hammer_web" :> "default_hammer_web_password")
    @@ ("mskminer_web" :> "default_mskminer_web_password")
    @@ ("auradine_web" :> "default_auradine_web_password")
    @@ ("bitaxe_web" :> "default_bitaxe_web_password")
    @@ ("blockminer_web" :> "default_blockminer_web_password")

\* keys a persisted "passwords" object may hold: one with a default and a
\* mapping, one with a default only, one with a mapping only, two unknown
PersistedPasswordKeys ==
    {"antminer_web", "bosminer_web", "bosminer", "_comment", "unknown_vendor"}

\* keys a persisted "network" object may hold
PersistedNetworkKeys == {"ip_from", "scan_timeout", "unknown"}

\* config_key.startswith("_")
StartsWithUnderscore(config_key) == config_key \in {"_comment"}

\* the value json.load gives for a section of the file: no such key, a value
\* that is not an object (null, a string, a number, a list), or an object
SectionAbsent == [shape |-> "absent", items |-> <<>>]
SectionNotObject == [shape |-> "not_object", items |-> <<>>]

PersistedSections(keys, values) ==
    {SectionAbsent, SectionNotObject}
    \cup {[shape |-> "object", items |-> f] :
            f \in UNION {[S -> values] :
                           S \in {T \in SUBSET keys :
                                     Cardinality(T) <= MaxPersistedKeys}}}

\* the states of config.json: missing, unreadable, not JSON, JSON that is
\* not an object (a list, a scalar), or an object
ConfigSources ==
    {[kind |-> k, passwords |-> SectionAbsent, network |-> SectionAbsent,
      extra |-> FALSE] :
        k \in {"missing", "unreadable", "invalid_json", "list", "scalar"}}
    \cup [kind : {"object"},
          passwords : PersistedSections(PersistedPasswordKeys,
                                        {"custom", None}),
          network : PersistedSections(PersistedNetworkKeys, {"custom"}),
          extra : BOOLEAN]

\* the exceptions of the try block: open(), json.load(), "section not in
\* data" or data[section] = values on a value that is not a dict, and
\* data[section].setdefault on a section that is not a dict
TryRaises(source) ==
    \/ source.kind # "object"
    \/ source.passwords.shape = "not_object"
    \/ source.network.shape = "not_object"

\* if section not in data: data[section] = values
\* else: for k, v in values.items(): data[section].setdefault(k, v)
Merged(section, values) ==
    IF section.shape = "absent" THEN values
    ELSE [k \in DOMAIN section.items \cup DOMAIN values |->
             IF k \in DOMAIN section.items THEN section.items[k]
             ELSE values[k]]

\* load_config()
load_config(source) ==
    IF TryRaises(source) THEN defaults
    ELSE [passwords |-> Merged(source.passwords, defaults.passwords),
          network |-> Merged(source.network, defaults.network),
          extra |-> source.extra,
          raised |-> FALSE]

\* configure_passwords_from_config(): the calls pyasic_settings.update
\* receives, as pairs <<setting, value>>
configure_passwords_from_config(source) ==
    LET pw == load_config(source).passwords
    IN  [raised |-> FALSE,
         updates |->
            {<<mapping[config_key], pw[config_key]>> :
                config_key \in
                   {k \in DOMAIN mapping :
                       /\ k \in DOMAIN pw
                       /\ pw[k] # None
                       /\ ~StartsWithUnderscore(k)}}]

\* the calls the model makes
FnCalls ==
    Call("MiningPoolConfig", EntriesWithUrl)
    \cup Call("hashrate_to_ths", [hashrate : Hashrates])
    \cup Call("hashrate_display", [hashrate : Hashrates])
    \cup Call("RowOf", ZipPairs)
    \cup Call("get_subnet", TypedAddresses)
    \cup Call("load_config", ConfigSources)
    \cup Call("configure_passwords_from_config", ConfigSources)

InitFn ==
    /\ fn_pc = "called"
    /\ fn_call \in FnCalls
    /\ fn_out = <<>>

Return(value) ==
    /\ fn_out' = value
    /\ fn_pc' = "returned"
    /\ UNCHANGED fn_call

\* new_pools.append(MiningPoolConfig(...)) for one entry of pool_list
CallMiningPoolConfig ==
    /\ fn_pc = "called"
    /\ fn_call.name = "MiningPoolConfig"
    /\ Return(MiningPoolConfig(fn_call.arg))

\* hashrate_to_ths(data)
CallHashrateToThs ==
    /\ fn_pc = "called"
    /\ fn_call.name = "hashrate_to_ths"
    /\ Return(hashrate_to_ths(fn_call.arg))

\* hashrate_display(data)
CallHashrateDisplay ==
    /\ fn_pc = "called"
    /\ fn_call.name = "hashrate_display"
    /\ Return(hashrate_display(fn_call.arg))

\* one iteration of for miner, result in zip(miners, results)
CallRowOf ==
    /\ fn_pc = "called"
    /\ fn_call.name = "RowOf"
    /\ Return(RowOf(fn_call.arg.miner, fn_call.arg.result))

\* subnet = self._get_subnet() in _on_scan and _monitor_loop
CallGetSubnet ==
    /\ fn_pc = "called"
    /\ fn_call.name = "get_subnet"
    /\ Return(get_subnet(fn_call.arg))

\* cfg = load_config()
CallLoadConfig ==
    /\ fn_pc = "called"
    /\ fn_call.name = "load_config"
    /\ Return(load_config(fn_call.arg))

\* configure_passwords_from_config()
CallConfigurePasswords ==
    /\ fn_pc = "called"
    /\ fn_call.name = "configure_passwords_from_config"
    /\ Return(configure_passwords_from_config(fn_call.arg))

NextFn ==
    \/ CallMiningPoolConfig /\ UNCHANGED <<ui_vars, sn_vars, dp_vars>>
    \/ CallHashrateToThs /\ UNCHANGED <<ui_vars, sn_vars, dp_vars>>
    \/ CallHashrateDisplay /\ UNCHANGED <<ui_vars, sn_vars, dp_vars>>
    \/ CallRowOf /\ UNCHANGED <<ui_vars, sn_vars, dp_vars>>
    \/ CallGetSubnet /\ UNCHANGED <<ui_vars, sn_vars, dp_vars>>
    \/ CallLoadConfig /\ UNCHANGED <<ui_vars, sn_vars, dp_vars>>
    \/ CallConfigurePasswords /\ UNCHANGED <<ui_vars, sn_vars, dp_vars>>

InitSpecFn == InitFn /\ UIOff /\ ScanOff /\ DispatchOff

SpecFn == InitSpecFn /\ [][NextFn]_vars

-----------------------------------------------------------------------------
(* Claims about the computing functions, checked under SpecFn *)

Returned(name) == fn_pc = "returned" /\ fn_call.name = name

\* C12: every pool entry send_pool_config builds has a non-empty password:
\* "x" when the supplied entry has no password key, an empty password or a
\* None password, and the supplied password, unchanged, when it is non-empty.
C12_PasswordPlaceholder ==
    Returned("MiningPoolConfig") =>
        /\ fn_out.password \notin {"", NoKey, None}
        /\ fn_out.password =
              IF fn_call.arg.password \in {NoKey, None, ""} THEN "x"
              ELSE fn_call.arg.password

\* C12 witness: an entry supplied with a None password was built with "x"
C12_Witness ==
    /\ Returned("MiningPoolConfig")
    /\ fn_call.arg.password = None
    /\ fn_out.password = "x"

\* the enumerated unit a unit string spells, whatever its casing (0: none)
UnitOf(unit) ==
    IF \E k \in UnitIndex : unit \in Casings(UnitLabels[k])
    THEN CHOOSE k \in UnitIndex : unit \in Casings(UnitLabels[k])
    ELSE 0

\* C15: hashrate_to_ths on a numeric rate returns the rate times the power
\* of 1000 of its unit (H/s -4, KH/s -3, MH/s -2, GH/s -1, TH/s 0, PH/s 1)
\* for every casing of the six units, and the rate itself for any other unit
\* string; every call returns.
C15_HashrateToThs ==
    Returned("hashrate_to_ths") =>
        LET hr == fn_call.arg.hashrate
        IN  hr.kind = "rate" =>
               fn_out = IF UnitOf(hr.unit) # 0
                        THEN Float(hr.rate, UnitPowers[UnitOf(hr.unit)])
                        ELSE Float(hr.rate, 0)

\* C15 witness: 95 kh/s came back as 95 * 1000^-3
C15_Witness ==
    /\ Returned("hashrate_to_ths")
    /\ fn_call.arg.hashrate = [kind |-> "rate", rate |-> 95,
                                unit |-> <<"k", "h", "/", "s">>]
    /\ fn_out = [m |-> 95, e |-> -3]

\* C16: for a numeric rate in any casing of one of the six units,
\* hashrate_display labels the value with the clean label of that unit.
C16_DisplayLabelIsTheUnit ==
    Returned("hashrate_display") =>
        LET hr == fn_call.arg.hashrate
        IN  (hr.kind = "rate" /\ UnitOf(hr.unit) # 0) =>
               fn_out = Formatted(hr.rate, UnitLabels[UnitOf(hr.unit)])

\* the entry of a reported pool list that is its primary pool: the first
\* whose active flag is true, else the first
PrimaryIndex(pools) ==
    IF \E i \in 1..Len(pools) : pools[i].active = "true"
    THEN CHOOSE i \in 1..Len(pools) :
            /\ pools[i].active = "true"
            /\ \A j \in 1..(i - 1) : pools[j].active # "true"
    ELSE 1

\* a field of a pool entry as a row shows it
Shown(x) == IF x = None THEN "N/A" ELSE x

\* C13: the primary pool of a row is the first entry of the snapshot's pool
\* list whose active flag is true, the first entry when none is active; the
\* url and the worker shown are those of that one entry; with an empty pool
\* list both read "N/A".
C13_PrimaryPool ==
    (Returned("RowOf") /\ ~fn_call.arg.result.exc) =>
        LET pools == fn_call.arg.result.pools
        IN  IF pools = <<>>
            THEN fn_out.pool1_url = "N/A" /\ fn_out.worker = "N/A"
            ELSE /\ fn_out.pool1_url = Shown(pools[PrimaryIndex(pools)].url)
                 /\ fn_out.worker = Shown(pools[PrimaryIndex(pools)].user)

\* C13 witness: the second of two entries is the active one, and the row
\* shows its url and its worker
C13_Witness ==
    /\ Returned("RowOf")
    /\ fn_call.arg.result.pools =
          << [url |-> "stratum://a", user |-> None, active |-> "false"],
             [url |-> "stratum://b", user |-> "w1", active |-> "true"] >>
    /\ fn_out.pool1_url = "stratum://b"
    /\ fn_out.worker = "w1"

\* C14: the status of a row is "Error" for a failed fetch, "Minando" for a
\* mining flag that is true, "Parado" for one that is false, and for a flag
\* that is None or cannot be read a value of its own, none of these three.
C14_StatusDerivation ==
    Returned("RowOf") =>
        LET result == fn_call.arg.result
        IN  IF result.exc THEN fn_out.status = "Error"
            ELSE IF result.is_mining = "true" THEN fn_out.status = "Minando"
            ELSE IF result.is_mining = "false" THEN fn_out.status = "Parado"
            ELSE fn_out.status \notin {"Error", "Minando", "Parado"}

\* the values hashrate_ths takes for a measured hashrate
MeasuredThs == {Float(r, UnitPowers[k]) : r \in Rates, k \in UnitIndex}

\* C17: a row without a hashrate reading (an error row, or a snapshot whose
\* hashrate is None) carries no hashrate_ths that a measured hashrate could
\* give, and a measured temperature, 0 included, is shown as a value.
C17_AbsentReadingsAreExplicit ==
    Returned("RowOf") =>
        LET result == fn_call.arg.result
        IN  /\ (result.exc \/ result.hashrate.kind = "None") =>
                  fn_out.hashrate_ths \notin MeasuredThs
            /\ (~result.exc /\ result.temperature_avg.kind = "value") =>
                  fn_out.temperature = result.temperature_avg

\* a part of a dotted address is a number of one to three digits
Digits == {"0", "1", "2", "4", "6", "8", "9"}
NumberPart(part) ==
    Len(part) \in 1..3 /\ \A i \in 1..Len(part) : part[i] \in Digits

\* an address of four numeric parts
WellFormedAddress(str) ==
    LET parts == SplitDots(str)
    IN  Len(parts) = 4 /\ \A i \in 1..4 : NumberPart(parts[i])

\* a /24 range that discovery can scan
ScannableRange(str) ==
    LET parts == SplitDots(str)
    IN  /\ Len(parts) = 4
        /\ \A i \in 1..3 : NumberPart(parts[i])
        /\ parts[4] = <<"0", "/", "2", "4">>

\* C19: for a malformed address (one that does not have four numeric parts
\* separated by dots) the subnet handed to the scan is not a range that can
\* be scanned, so no scan runs against a range the operator did not request.
C19_MalformedRangeIsNotScanned ==
    (Returned("get_subnet") /\ ~WellFormedAddress(fn_call.arg)) =>
        ~ScannableRange(fn_out)

\* the sections of the file that json.load gives as objects
ObjectSections(source) ==
    {n \in {"passwords", "network"} :
        source.kind = "object" /\ source[n].shape = "object"}

\* every key with a built-in default is in the returned configuration
HasEveryDefaultKey(cfg) ==
    /\ DOMAIN defaults.passwords \subseteq DOMAIN cfg.passwords
    /\ DOMAIN defaults.network \subseteq DOMAIN cfg.network

\* the values of the persisted section n are the values of the result
PersistedWins(source, cfg, n) ==
    \A k \in DOMAIN source[n].items : cfg[n][k] = source[n].items[k]

\* C24: for every state of config.json (missing, unreadable, not
\* JSON, of the wrong shape, lacking sections or keys, holding unknown keys)
\* load_config does not fail and returns every built-in default key of both
\* sections, every persisted value takes precedence over its default, and
\* applying the credentials does not fail.
C24_PersistedValueAlwaysWins ==
    /\ Returned("load_config") =>
          /\ ~fn_out.raised
          /\ HasEveryDefaultKey(fn_out)
          /\ \A n \in ObjectSections(fn_call.arg) :
                 PersistedWins(fn_call.arg, fn_out, n)
    /\ Returned("configure_passwords_from_config") => ~fn_out.raised

\* C25: every credential key with a built-in default in load_config is
\* applied to the driver settings by configure_passwords_from_config, with
\* the value load_config resolved for it.
C25_EveryDefaultKeyIsApplied ==
    Returned("configure_passwords_from_config") =>
        LET pw == load_config(fn_call.arg).passwords
        IN  \A k \in DOMAIN defaults.passwords :
               pw[k] # None =>
                  /\ k \in DOMAIN mapping
                  /\ <<mapping[k], pw[k]>> \in fn_out.updates

\* C28: whenever the row of a device shows its hashrate with the label of
\* one of MH/s, GH/s, TH/s, PH/s, the TH/s value of the same row is the rate
\* times the conversion factor of that same unit, for every unit string the
\* device may report.
C28_LabelAndFactorAgree ==
    Returned("RowOf") =>
        \A k \in UnitIndex :
           (/\ UnitLabels[k] \in {<<"M", "H", "/", "s">>, <<"G", "H", "/", "s">>,
                                  <<"T", "H", "/", "s">>, <<"P", "H", "/", "s">>}
            /\ fn_out.hashrate_str.kind = "formatted"
            /\ fn_out.hashrate_str.unit = UnitLabels[k]) =>
               fn_out.hashrate_ths =
                  Float(fn_out.hashrate_str.rate, UnitPowers[k])

=============================================================================
